---- MODULE Spec2Model ----
(***************************************************************************)
(* Model of the "Airflow BI Orchestrator" page (src/pages/1_App.py): the   *)
(* TRIGGER DAG handler that walks project -> workbook -> dashboard ->      *)
(* sheet, reconciles Drive folders (get_or_create_folder), extracts and    *)
(* masks the Snowflake result set of each sheet, uploads it, and verifies  *)
(* the Gemini index with a retry sensor (gemini_sensor_with_retry).        *)
(*                                                                         *)
(* The three collaborators are the environment: the Drive namespace is the *)
(* variable drive, the Snowflake query history is queryHistory, and every  *)
(* remote call may raise.  The order of files().list() without orderBy is  *)
(* not specified by the API, so files[0] is any of the matches.            *)
(***************************************************************************)
EXTENDS Integers, Sequences, FiniteSets, TLC

\* ------------------------------------------------------------------ bounds
MaxWb == 2          \* workbooks in a config
MaxDashboards == 2  \* dashboards in a whole config
MaxSheets == 2      \* sheets in a whole config
MaxPre == 2         \* folders already in the namespace before the first run
MaxAttempts == 8    \* largest max_retries tried on the sensor alone
MaxCols == 2        \* columns of a result set masked on its own
MaxRows == 2        \* rows of a result set masked on its own
MaxMask == 2        \* names in a mask_columns list tried on its own
MaxRuns == 2        \* presses of TRIGGER DAG in one session

\* ------------------------------------------------------- program constants
DefaultMaxRetries == 3      \* max_retries=3 in gemini_sensor_with_retry
BackoffDelay == 10          \* time.sleep(10) between attempts

None == 0                   \* Python None; also "no parent" (the Drive root)
Redacted == "***"

ProjectName == "P"
WbNames == {"P", "W"}
DbNames == {"W", "D"}
Tags == {"t1", "t2"}
PreNames == {"P", "W"}
MaskChoices == {<<"EMAIL", "SSN">>}

\* ------------------------------------------------------------ pure helpers
Range(f) == {f[i] : i \in DOMAIN f}

SeqsUpTo(S, n) == UNION {[1..k -> S] : k \in 0..n}

\* The table RESULT_SCAN yields for a tag: ordered columns and rows.
ResultSet(tag) ==
    [columns |-> <<"NAME", "EMAIL">>,
     rows    |-> << <<"Jo", "jo@x.com">>, <<tag, "a@b.c">> >>]

\* No frame is bound: before the first sheet and after a sheet's upload.
NoFrame == [columns |-> <<>>, rows |-> <<>>]

\* df.loc[0, col] = "***": only the first row is overwritten
MaskTableFirstRowOnly(df, mask_columns) ==
    [columns |-> df.columns,
     rows    |-> [r \in DOMAIN df.rows |->
                    [c \in DOMAIN df.columns |->
                        IF r = 1 /\ df.columns[c] \in Range(mask_columns)
                        THEN Redacted ELSE df.rows[r][c]]]]

\* for col in mask_columns[-1:]: only the last listed column is overwritten
MaskTableLastListed(df, mask_columns) ==
    [columns |-> df.columns,
     rows    |-> [r \in DOMAIN df.rows |->
                    [c \in DOMAIN df.columns |->
                        IF /\ mask_columns # <<>>
                           /\ df.columns[c] = mask_columns[Len(mask_columns)]
                        THEN Redacted ELSE df.rows[r][c]]]]

\* for col in mask_columns: if col in df.columns: df[col] = "***"
MaskTable(df, mask_columns) ==
    [columns |-> df.columns,
     rows    |-> [r \in DOMAIN df.rows |->
                    [c \in DOMAIN df.columns |->
                        IF df.columns[c] \in Range(mask_columns)
                        THEN Redacted ELSE df.rows[r][c]]]]

\* df.to_json(orient='records'): one object per row, keys in column order.
ToJsonRecords(df) ==
    [r \in DOMAIN df.rows |->
        [c \in DOMAIN df.columns |-> <<df.columns[c], df.rows[r][c]>>]]

\* ------------------------------------------------------- the Drive namespace
Folder(name, parent, trashed) ==
    [kind |-> "folder", name |-> name, parent |-> parent,
     trashed |-> trashed, body |-> <<>>]

File(name, parent, body) ==
    [kind |-> "file", name |-> name, parent |-> parent,
     trashed |-> FALSE, body |-> body]

\* files().list(q=...): the ids the query of get_or_create_folder matches.
\* The parent clause is added only when parent_id is truthy.
Matches(drv, folder_name, parent_id) ==
    {i \in DOMAIN drv :
        /\ drv[i].kind = "folder"
        /\ drv[i].name = folder_name
        /\ ~drv[i].trashed
        /\ (parent_id # None => drv[i].parent = parent_id)}

\* files[0]: the listing order is unspecified, so any match may come first.
FirstOf(files) == files

\* get_or_create_folder: every (id, message, namespace afterwards) it can
\* return when no call raises.
GetOrCreateFolder(drv, folder_name, parent_id) ==
    LET files == Matches(drv, folder_name, parent_id) IN
    IF files # {}
    THEN {[id |-> i, msg |-> "EXISTS", drive |-> drv] : i \in FirstOf(files)}
    ELSE {[id |-> Len(drv) + 1, msg |-> "CREATED",
           drive |-> Append(drv, Folder(folder_name, parent_id, FALSE))]}

\* --------------------------------------------------------------- the inputs
Dashboard(name, sheets, mask) ==
    [dashboard_name |-> name, sheets |-> sheets, mask_columns |-> mask]

Workbook(name, dashboards) ==
    [workbook_name |-> name, dashboards |-> dashboards]

\* The first dashboard of a list carries a name the namespace may already
\* hold, the first sheet the first tag; later ones repeat it or differ.
StartsWith(q, first) == q = <<>> \/ q[1] = first

\* The DAG JSON documents tried: every workbook carries the same dashboards
\* and every dashboard the same sheets and mask_columns; names may repeat.
Configs ==
    {[project_name |-> ProjectName,
      workbooks |-> [i \in DOMAIN wn |->
          Workbook(wn[i], [j \in DOMAIN dn |-> Dashboard(dn[j], sh, mc)])]] :
       <<wn, dn, sh, mc>> \in
          {q \in SeqsUpTo(WbNames, MaxWb) \X SeqsUpTo(DbNames, MaxDashboards)
                  \X SeqsUpTo(Tags, MaxSheets) \X MaskChoices :
              /\ StartsWith(q[2], "W") /\ StartsWith(q[3], "t1")
              /\ Len(q[1]) * Len(q[2]) <= MaxDashboards
              /\ Len(q[1]) * Len(q[2]) * Len(q[3]) <= MaxSheets}}

\* The tags a config names; no other tag is ever looked up.
ConfigTags(cfg) ==
    UNION {Range(cfg.workbooks[i].dashboards[j].sheets) :
             <<i, j>> \in {q \in (DOMAIN cfg.workbooks) \X (1..MaxDashboards) :
                             q[2] \in DOMAIN cfg.workbooks[q[1]].dashboards}}

\* The namespaces a session may start from: folders only, each under the
\* root or under an earlier folder.
RECURSIVE InitDrives(_)
InitDrives(n) ==
    IF n = 0 THEN {<<>>}
    ELSE LET shorter == InitDrives(n - 1) IN
         shorter \cup
         {Append(drv, Folder(nm, par, tr)) :
            drv \in {x \in shorter : Len(x) = n - 1},
            nm \in PreNames, par \in 0..(n - 1), tr \in BOOLEAN}

VARIABLES
    config,         \* st.session_state.config
    queryHistory,   \* tags with a successful query in QUERY_HISTORY
    drive,          \* the Drive namespace: item id = index
    gov_logs,       \* st.session_state.gov_logs
    pc, status, runs,
    sf_session, drive_service, gemini_model,
    p_id, wb_id, db_id, w, d, s,
    df,             \* the data frame of the sheet being processed
    output,
    max_retries, attempt, ok, probes, sleeps,
    events,         \* the collaborator calls of the current run, in order
    startDrive,     \* the namespace when the current run was triggered
    startLogs,      \* gov_logs when the current run was triggered
    past            \* the earlier runs of the session: status and calls

vars == <<config, queryHistory, drive, gov_logs, pc, status, runs,
          sf_session, drive_service, gemini_model,
          p_id, wb_id, db_id, w, d, s, df, output,
          max_retries, attempt, ok, probes, sleeps, events, startDrive,
          startLogs, past>>

envVars == <<config, queryHistory>>
collabVars == <<sf_session, drive_service, gemini_model>>
sensorVars == <<max_retries, attempt, ok, probes, sleeps>>
folderVars == <<p_id, wb_id, db_id>>

Workbooks == config.workbooks
Dashboards(ww) == Workbooks[ww].dashboards
Sheets(ww, dd) == Dashboards(ww)[dd].sheets

Event(op, ww, dd, ss, name, parent, id, msg) ==
    [op |-> op, w |-> ww, d |-> dd, s |-> ss, name |-> name,
     parent |-> parent, id |-> id, msg |-> msg]

Init ==
    /\ config \in Configs
    /\ queryHistory \in SUBSET ConfigTags(config)
    /\ drive \in InitDrives(MaxPre)
    /\ gov_logs = <<>>
    /\ pc = "idle" /\ status = "none" /\ runs = 0
    /\ sf_session = FALSE /\ drive_service = FALSE /\ gemini_model = FALSE
    /\ p_id = None /\ wb_id = None /\ db_id = None
    /\ w = 0 /\ d = 0 /\ s = 0 /\ df = NoFrame /\ output = <<>>
    /\ max_retries = 0 /\ attempt = 0 /\ ok = FALSE
    /\ probes = <<>> /\ sleeps = <<>>
    /\ events = <<>>
    /\ startDrive = drive
    /\ startLogs = gov_logs
    /\ past = <<>>

\* ------------------------------------------------------------ loop control
Pos(label, ww, dd, ss) == [pc |-> label, w |-> ww, d |-> dd, s |-> ss]

\* for wb in config.get('workbooks', []): the ww-th iteration, or the end
NextWorkbook(ww) ==
    IF ww <= Len(Workbooks) THEN Pos("workbook", ww, 0, 0)
    ELSE Pos("finish", 0, 0, 0)

\* a break after the first dashboard of a workbook
NextDashboardBreaks(ww, dd) ==
    IF dd <= 1 /\ dd <= Len(Dashboards(ww)) THEN Pos("dashboard", ww, dd, 0)
    ELSE NextWorkbook(ww + 1)

\* for db in wb.get('dashboards', [])
NextDashboard(ww, dd) ==
    IF dd <= Len(Dashboards(ww)) THEN Pos("dashboard", ww, dd, 0)
    ELSE NextWorkbook(ww + 1)

\* for sheet in db.get('sheets', [])
NextSheet(ww, dd, ss) ==
    IF ss <= Len(Sheets(ww, dd)) THEN Pos("extract", ww, dd, ss)
    ELSE NextDashboard(ww, dd + 1)

GoTo(pos) == /\ pc' = pos.pc /\ w' = pos.w /\ d' = pos.d /\ s' = pos.s

\* except Exception as e: st.error(...): the handler ends, nothing is undone
Raised(ev) ==
    /\ events' = Append(events, ev)
    /\ status' = "error"
    /\ pc' = "idle"
    /\ UNCHANGED <<w, d, s>>

\* if not (sf_session and drive_service): the third collaborator forgotten
AllInitialisedButGemini(sf, dr, gm) == sf /\ dr

\* if not (sf_session and drive_service and gemini_model): st.stop()
AllInitialised(sf, dr, gm) == sf /\ dr /\ gm

\* ------------------------------------------------------------------ actions
\* What is remembered of the run that has just ended.
PastRun == [status |-> status, events |-> events]

\* The TRIGGER DAG button, with a credentials file uploaded; limit is the
\* number of presses the session under study makes.
Trigger(limit) ==
    /\ pc = "idle"
    /\ runs < limit
    /\ runs' = runs + 1
    /\ pc' = "init" /\ status' = "running"
    /\ events' = <<>> /\ startDrive' = drive /\ startLogs' = gov_logs
    /\ past' = IF runs = 0 THEN past ELSE Append(past, PastRun)
    /\ sf_session' = FALSE /\ drive_service' = FALSE /\ gemini_model' = FALSE
    /\ p_id' = None /\ wb_id' = None /\ db_id' = None
    /\ w' = 0 /\ d' = 0 /\ s' = 0 /\ df' = NoFrame /\ output' = <<>>
    /\ max_retries' = 0 /\ attempt' = 0 /\ ok' = FALSE
    /\ probes' = <<>> /\ sleeps' = <<>>
    /\ UNCHANGED <<envVars, drive, gov_logs>>

\* json.load(cred_file) or a missing key raises.
LoadCredentialsRaises ==
    /\ pc = "init"
    /\ status' = "error" /\ pc' = "idle"
    /\ UNCHANGED <<envVars, drive, gov_logs, runs, collabVars, folderVars,
                   w, d, s, df, output, sensorVars, events, startDrive,
                   startLogs,
                   past>>

\* The three initialize_* calls (each returns None when it fails) and the
\* st.stop() guard.
InitCollaborators ==
    /\ pc = "init"
    /\ \E sf \in BOOLEAN, dr \in BOOLEAN, gm \in BOOLEAN :
        /\ sf_session' = sf /\ drive_service' = dr /\ gemini_model' = gm
        /\ IF AllInitialised(sf, dr, gm)
           THEN pc' = "project" /\ status' = status
           ELSE pc' = "idle" /\ status' = "stopped"
    /\ UNCHANGED <<envVars, drive, gov_logs, runs, folderVars,
                   w, d, s, df, output, sensorVars, events, startDrive,
                   startLogs,
                   past>>

\* p_id, p_msg = get_or_create_folder(drive_service, project_name)
ReconcileProject ==
    /\ pc = "project"
    /\ \/ /\ Raised(Event("reconcile", 0, 0, 0, config.project_name, None,
                          None, "RAISED"))
          /\ UNCHANGED <<drive, folderVars>>
       \/ \E r \in GetOrCreateFolder(drive, config.project_name, None) :
          /\ p_id' = r.id /\ drive' = r.drive
          /\ events' = Append(events,
                 Event("reconcile", 0, 0, 0, config.project_name, None,
                       r.id, r.msg))
          /\ GoTo(NextWorkbook(1))
          /\ UNCHANGED <<status, wb_id, db_id>>
    /\ UNCHANGED <<envVars, gov_logs, runs, collabVars, df, output, sensorVars,
                   startDrive, startLogs,
                   past>>

\* The parent the workbook folder is reconciled under.
WorkbookParent == p_id

\* wb_id, w_msg = get_or_create_folder(drive_service, wb['workbook_name'], p_id)
ReconcileWorkbook ==
    /\ pc = "workbook"
    /\ LET name == Workbooks[w].workbook_name IN
       \/ /\ Raised(Event("reconcile", w, 0, 0, name, WorkbookParent, None,
                          "RAISED"))
          /\ UNCHANGED <<drive, folderVars>>
       \/ \E r \in GetOrCreateFolder(drive, name, WorkbookParent) :
          /\ wb_id' = r.id /\ drive' = r.drive
          /\ events' = Append(events,
                 Event("reconcile", w, 0, 0, name, WorkbookParent, r.id, r.msg))
          /\ GoTo(NextDashboard(w, 1))
          /\ UNCHANGED <<status, p_id, db_id>>
    /\ UNCHANGED <<envVars, gov_logs, runs, collabVars, df, output, sensorVars,
                   startDrive, startLogs,
                   past>>

\* get_or_create_folder(..., db['dashboard_name'], p_id)
DashboardParentIsProject == p_id

\* The parent the dashboard folder is reconciled under.
DashboardParent == wb_id

\* db_id, d_msg = get_or_create_folder(drive_service, db['dashboard_name'], wb_id)
ReconcileDashboard ==
    /\ pc = "dashboard"
    /\ LET name == Dashboards(w)[d].dashboard_name IN
       \/ /\ Raised(Event("reconcile", w, d, 0, name, DashboardParent, None,
                          "RAISED"))
          /\ UNCHANGED <<drive, folderVars>>
       \/ \E r \in GetOrCreateFolder(drive, name, DashboardParent) :
          /\ db_id' = r.id /\ drive' = r.drive
          /\ events' = Append(events,
                 Event("reconcile", w, d, 0, name, DashboardParent, r.id, r.msg))
          /\ GoTo(NextSheet(w, d, 1))
          /\ UNCHANGED <<status, p_id, wb_id>>
    /\ UNCHANGED <<envVars, gov_logs, runs, collabVars, df, output, sensorVars,
                   startDrive, startLogs,
                   past>>

Sheet == Sheets(w, d)[s]
sheetPart == <<envVars, gov_logs, runs, collabVars, folderVars, startDrive,
               startLogs,
               past>>

\* q_id = sf_session.sql("... QUERY_TAG = '{sheet}' AND EXECUTION_STATUS =
\* 'SUCCESS' ... LIMIT 1").collect(): empty when the tag has no such query
QueryId(tag) == tag \in queryHistory

\* Task 2, the query-history lookup and the `if q_id:` test.  With no result
\* the loop body ends: nothing is written anywhere for the sheet.
ExtractQuery ==
    /\ pc = "extract"
    /\ \/ /\ Raised(Event("extract", w, d, s, Sheet, None, None, "RAISED"))
          /\ UNCHANGED <<df, output>>
       \/ /\ QueryId(Sheet)
          /\ pc' = "scan"
          /\ UNCHANGED <<w, d, s, status, events, df, output>>
       \/ /\ ~QueryId(Sheet)
          /\ events' = Append(events,
                 Event("extract", w, d, s, Sheet, None, None, "NONE"))
          /\ GoTo(NextSheet(w, d, s + 1))
          /\ UNCHANGED <<status, df, output>>
    /\ UNCHANGED <<sheetPart, drive, sensorVars>>

\* df = sf_session.sql("SELECT * FROM TABLE(RESULT_SCAN(...))").to_pandas()
Scan ==
    /\ pc = "scan"
    /\ \/ /\ Raised(Event("extract", w, d, s, Sheet, None, None, "RAISED"))
          /\ UNCHANGED df
       \/ /\ df' = ResultSet(Sheet)
          /\ pc' = "mask"
          /\ UNCHANGED <<w, d, s, status, events>>
    /\ UNCHANGED <<sheetPart, drive, output, sensorVars>>

\* The masking loop over db.get('mask_columns', []) and
\* json_output = df.to_json(orient='records')
MaskSerialize ==
    /\ pc = "mask"
    /\ df' = MaskTable(df, Dashboards(w)[d].mask_columns)
    /\ output' = ToJsonRecords(df')
    /\ events' = Append(events,
           Event("extract", w, d, s, Sheet, None, None, "FOUND"))
    /\ pc' = "upload"
    /\ UNCHANGED <<w, d, s, status>>
    /\ UNCHANGED <<sheetPart, drive, sensorVars>>

\* 'parents': [wb_id]: the artifact lands in the workbook folder
UploadParentIsWorkbook == wb_id

\* The container the artifact is written into.
UploadParent == db_id

\* f"{sheet}.json"
ArtifactName(sheet) == sheet \o ".json"

\* drive_service.files().create(body={'name': f"{sheet}.json",
\*                                    'parents': [db_id]}, media_body=media)
\* The frame is not read again once it has been serialised.
Upload ==
    /\ pc = "upload"
    /\ \/ /\ Raised(Event("place", w, d, s, ArtifactName(Sheet), UploadParent,
                          None, "RAISED"))
          /\ UNCHANGED drive
       \/ /\ drive' = Append(drive,
                 File(ArtifactName(Sheet), UploadParent, output))
          /\ events' = Append(events,
                 Event("place", w, d, s, ArtifactName(Sheet), UploadParent,
                       Len(drive) + 1, "UPLOADED"))
          /\ pc' = "verify"
          /\ UNCHANGED <<w, d, s, status>>
    /\ df' = NoFrame
    /\ UNCHANGED <<sheetPart, output, sensorVars>>

\* ------------------------------------------------- gemini_sensor_with_retry
ProbeOutcomes == {"positive", "negative", "raises"}

\* The try body: the index call is commented out and its answer is never
\* read, so the attempt returns True unless something in the body raises.
AttemptSucceeds(outcome) == outcome # "raises"

\* range(1, max_retries + 2): one iteration too many
InRangeOffByOne(a, m) == a <= m + 1

\* for attempt in range(1, max_retries + 1): is there an iteration a?
InRange(a, m) == a <= m

\* time.sleep(10) with no test: a backoff follows the last attempt too
SleepsAfterEvery(a, m) == a <= m

\* if attempt < max_retries: time.sleep(10)
SleepsAfter(a, m) == a < m

\* return False, "...failed to sync..." after the loop
AfterLoop == [raises |-> FALSE, ok |-> FALSE]

\* The call, with the loop's first test.
SensorEnter(m) ==
    /\ max_retries' = m /\ attempt' = 1
    /\ probes' = <<>> /\ sleeps' = <<>>

VerifyEvent(n, msg) == Event("verify", w, d, s, Sheet, None, None, msg)

\* What follows the loop when it runs out of iterations.
SensorLoopEnds(n) ==
    IF AfterLoop.raises
    THEN /\ Raised(VerifyEvent(n, "RAISED"))
         /\ ok' = ok
    ELSE /\ ok' = AfterLoop.ok
         /\ events' = Append(events, VerifyEvent(n, "EXHAUSTED"))
         /\ pc' = "log"
         /\ UNCHANGED <<w, d, s, status>>

\* ok, msg = gemini_sensor_with_retry(gemini_model, sheet, path_ctx)
SensorCall(m) ==
    /\ pc = "verify"
    /\ SensorEnter(m)
    /\ IF InRange(1, m)
       THEN pc' = "sensor" /\ UNCHANGED <<w, d, s, status, events, ok>>
       ELSE SensorLoopEnds(0)
    /\ UNCHANGED <<sheetPart, drive, df, output>>

\* One iteration of the loop: the attempt, and on an exception the backoff
\* sleep and the next loop test.
SensorAttempt ==
    /\ pc = "sensor"
    /\ \E outcome \in ProbeOutcomes :
        /\ probes' = Append(probes, outcome)
        /\ IF AttemptSucceeds(outcome)
           THEN /\ ok' = TRUE
                /\ events' = Append(events, VerifyEvent(attempt, "VERIFIED"))
                /\ pc' = "log"
                /\ UNCHANGED <<w, d, s, status, attempt, sleeps>>
           ELSE /\ sleeps' = IF SleepsAfter(attempt, max_retries)
                             THEN Append(sleeps, BackoffDelay) ELSE sleeps
                /\ IF InRange(attempt + 1, max_retries)
                   THEN /\ attempt' = attempt + 1
                        /\ UNCHANGED <<pc, w, d, s, status, events, ok>>
                   ELSE /\ attempt' = attempt
                        /\ SensorLoopEnds(attempt)
    /\ UNCHANGED <<sheetPart, drive, df, output, max_retries>>

\* st.session_state.gov_logs.append({...})
LogEntry(sheet, verified) ==
    [Task |-> sheet, Status |-> "Complete", Gemini |-> "Verified"]

\* else: raise, in place of the Task 3 Failed message
OnVerdictAbort(verified) == IF verified THEN "continue" ELSE "abort"

\* if ok: st.write("Task 3 Success") else: st.write("Task 3 Failed"): both
\* branches only write a message and the loop body goes on.
OnVerdict(verified) == "continue"

\* The Task 3 message and the gov_logs row; then the next sheet.  The
\* sensor's locals are gone once it has returned.
Log ==
    /\ pc = "log"
    /\ IF OnVerdict(ok) = "continue"
       THEN /\ gov_logs' = Append(gov_logs, LogEntry(Sheet, ok))
            /\ GoTo(NextSheet(w, d, s + 1))
            /\ status' = status
       ELSE /\ gov_logs' = gov_logs
            /\ status' = "error" /\ pc' = "idle"
            /\ UNCHANGED <<w, d, s>>
    /\ max_retries' = 0 /\ attempt' = 0 /\ probes' = <<>> /\ sleeps' = <<>>
    /\ UNCHANGED <<envVars, drive, runs, collabVars, folderVars,
                   df, output, ok, events, startDrive, startLogs,
                   past>>

\* status.update(label="DAG Execution Finished", state="complete")
Finish ==
    /\ pc = "finish"
    /\ status' = "complete" /\ pc' = "idle"
    /\ UNCHANGED <<envVars, drive, gov_logs, runs, collabVars, folderVars,
                   w, d, s, df, output, sensorVars, events, startDrive,
                   startLogs,
                   past>>

\* One run: a single press of the button.
Next ==
    \/ Trigger(1)
    \/ LoadCredentialsRaises
    \/ InitCollaborators
    \/ ReconcileProject
    \/ ReconcileWorkbook
    \/ ReconcileDashboard
    \/ ExtractQuery
    \/ Scan
    \/ MaskSerialize
    \/ Upload
    \/ SensorCall(DefaultMaxRetries)
    \/ SensorAttempt
    \/ Log
    \/ Finish

Spec == Init /\ [][Next]_vars

\* ------------------------------------------------- the sensor on its own
\* gemini_sensor_with_retry called for one uploaded sheet with any
\* max_retries in 0..MaxAttempts and any probe outcomes.
SensorConfig ==
    [project_name |-> ProjectName,
     workbooks |-> <<Workbook("W", <<Dashboard("D", <<"t1">>, <<>>)>>)>>]

SensorInit ==
    /\ config = SensorConfig
    /\ queryHistory = {"t1"}
    /\ drive = <<Folder("P", None, FALSE), Folder("W", 1, FALSE),
                 Folder("D", 2, FALSE), File("t1.json", 3, <<>>)>>
    /\ gov_logs = <<>>
    /\ pc = "verify" /\ status = "running" /\ runs = 1
    /\ sf_session = TRUE /\ drive_service = TRUE /\ gemini_model = TRUE
    /\ p_id = 1 /\ wb_id = 2 /\ db_id = 3
    /\ w = 1 /\ d = 1 /\ s = 1 /\ df = NoFrame /\ output = <<>>
    /\ max_retries = 0 /\ attempt = 0 /\ ok = FALSE
    /\ probes = <<>> /\ sleeps = <<>>
    /\ events = <<>>
    /\ startDrive = drive
    /\ startLogs = gov_logs
    /\ past = <<>>

SensorNext ==
    \/ \E m \in 0..MaxAttempts : SensorCall(m)
    \/ SensorAttempt

SensorSpec == SensorInit /\ [][SensorNext]_vars

\* ------------------------------------------------------ helpers of claims
Ended == pc = "idle" /\ status \in {"complete", "error", "stopped"}

AllSheets ==
    {q \in (DOMAIN Workbooks) \X (1..MaxDashboards) \X (1..MaxSheets) :
        /\ q[2] \in DOMAIN Dashboards(q[1])
        /\ q[3] \in DOMAIN Sheets(q[1], q[2])}

\* The rows the current run has added to gov_logs.
NewLogs == SubSeq(gov_logs, Len(startLogs) + 1, Len(gov_logs))

\* The indices of the events of one kind, and of one node.
EventsOf(op) == {i \in DOMAIN events : events[i].op = op}
EventsAt(op, ww, dd, ss) ==
    {i \in EventsOf(op) :
        events[i].w = ww /\ events[i].d = dd /\ events[i].s = ss}

\* The verdicts the sensor has returned in the current run, in order.
RECURSIVE Verdicts(_)
Verdicts(n) ==
    IF n = 0 THEN <<>>
    ELSE IF events[n].op = "verify" /\ events[n].msg # "RAISED"
         THEN Append(Verdicts(n - 1), events[n].msg)
         ELSE Verdicts(n - 1)

\* ---------------------------------------------------------------- claims

\* C1: one call of gemini_sensor_with_retry issues at most max_retries
\* probes, and it returns False only after exactly max_retries probes, none
\* of them positive.
C1_RetryBound ==
    /\ Len(probes) <= max_retries
    /\ (pc = "log" /\ ~ok) =>
          /\ Len(probes) = max_retries
          /\ \A i \in DOMAIN probes : probes[i] \in {"negative", "raises"}

C1_Witness ==
    pc = "log" /\ ~ok /\ max_retries = DefaultMaxRetries
    /\ Len(probes) = DefaultMaxRetries

\* C2: right after a call of get_or_create_folder has returned, a second
\* call with the same (parent, name) returns the same id tagged EXISTS, and
\* exactly one non-trashed folder of that name lies under that parent.
C2_TwiceSameContainer ==
    \A i \in EventsOf("reconcile") :
        (i = Len(events) /\ events[i].msg # "RAISED") =>
            \A r \in GetOrCreateFolder(drive, events[i].name, events[i].parent) :
                /\ r.id = events[i].id
                /\ r.msg = "EXISTS"
                /\ Cardinality({k \in DOMAIN r.drive :
                        /\ r.drive[k].kind = "folder"
                        /\ r.drive[k].name = events[i].name
                        /\ ~r.drive[k].trashed
                        /\ r.drive[k].parent = events[i].parent}) = 1

\* C3: when reconciling the folder of a workbook that has later siblings
\* raises, every later workbook is still reconciled and its sheets
\* extracted, and the sheets of the failed workbook are reported as Skipped.
C3_SiblingWorkbooksContinue ==
    \A i \in EventsOf("reconcile") :
        (Ended /\ events[i].w >= 1 /\ events[i].w < Len(Workbooks)
               /\ events[i].d = 0 /\ events[i].msg = "RAISED") =>
            /\ \A w2 \in (events[i].w + 1)..Len(Workbooks) :
                  /\ EventsAt("reconcile", w2, 0, 0) # {}
                  /\ \A q \in AllSheets :
                        q[1] = w2 => EventsAt("extract", q[1], q[2], q[3]) # {}
            /\ \A q \in AllSheets :
                  q[1] = events[i].w =>
                     \E n \in DOMAIN NewLogs :
                        /\ NewLogs[n].Task = Sheets(q[1], q[2])[q[3]]
                        /\ NewLogs[n].Gemini = "Skipped"

\* C4: once a run that initialised its three collaborators has ended,
\* gov_logs holds a row of this run for every sheet of the config.
C4_EverySheetReported ==
    (Ended /\ sf_session /\ drive_service /\ gemini_model) =>
        \A t \in Tags :
            Cardinality({n \in DOMAIN NewLogs : NewLogs[n].Task = t})
              >= Cardinality({q \in AllSheets : Sheets(q[1], q[2])[q[3]] = t})

\* C5: the row written for a sheet says Verified only when the sensor
\* returned True and Exhausted when it returned False, and a sensor whose
\* probes are all negative makes 3 attempts and returns False.
C5_StatusReflectsVerifier ==
    /\ \A n \in DOMAIN NewLogs :
          LET v == Verdicts(Len(events))[n] IN
          /\ NewLogs[n].Gemini = "Verified" => v = "VERIFIED"
          /\ v = "EXHAUSTED" => NewLogs[n].Gemini = "Exhausted"
    /\ (pc = "log" /\ \A i \in DOMAIN probes : probes[i] = "negative") =>
          (Len(probes) = DefaultMaxRetries /\ ~ok)

\* C6: a sensor that returned False never ends the run: the run ends as
\* complete, with every sheet of the config extracted, or in an exception a
\* later collaborator call raised.
C6_ExhaustedDoesNotAbort ==
    \A i \in EventsOf("verify") :
        events[i].msg = "EXHAUSTED" =>
            /\ pc = "idle" =>
                  \/ status = "complete"
                  \/ /\ status = "error"
                     /\ i < Len(events)
                     /\ events[Len(events)].msg = "RAISED"
                     /\ events[Len(events)].op # "verify"
            /\ status = "complete" =>
                  \A q \in AllSheets : EventsAt("extract", q[1], q[2], q[3]) # {}

C6_Witness ==
    /\ status = "complete"
    /\ \E i \in EventsOf("verify"), j \in EventsOf("verify") :
          /\ i < j
          /\ events[i].msg = "EXHAUSTED"
          /\ events[j].msg = "VERIFIED"

\* C7: once the run has left a sheet whose extraction failed (no result set,
\* or the client raised), gov_logs holds a row for it with Gemini = Failed,
\* the sheet has no upload and no sensor call, and by the end of the run the
\* sheets after it in its dashboard have been extracted.
C7_ExtractFailureRecorded ==
    \A i \in EventsOf("extract") :
        events[i].msg \in {"NONE", "RAISED"} =>
            /\ \E n \in DOMAIN NewLogs :
                  /\ NewLogs[n].Task = events[i].name
                  /\ NewLogs[n].Gemini = "Failed"
            /\ EventsAt("place", events[i].w, events[i].d, events[i].s) = {}
            /\ EventsAt("verify", events[i].w, events[i].d, events[i].s) = {}
            /\ Ended =>
                  \A s2 \in (events[i].s + 1)..Len(Sheets(events[i].w, events[i].d)) :
                      EventsAt("extract", events[i].w, events[i].d, s2) # {}

\* The calls a run makes when nothing raises, in document order: what is
\* called for which node, not what came back.
Call(op, ww, dd, ss, name) ==
    [op |-> op, w |-> ww, d |-> dd, s |-> ss, name |-> name]

RECURSIVE Flatten(_)
Flatten(ss) == IF ss = <<>> THEN <<>> ELSE Head(ss) \o Flatten(Tail(ss))

SheetCalls(ww, dd, ss) ==
    LET tag == Sheets(ww, dd)[ss] IN
    IF tag \in queryHistory
    THEN <<Call("extract", ww, dd, ss, tag),
           Call("place", ww, dd, ss, tag \o ".json"),
           Call("verify", ww, dd, ss, tag)>>
    ELSE <<Call("extract", ww, dd, ss, tag)>>

DashboardCalls(ww, dd) ==
    <<Call("reconcile", ww, dd, 0, Dashboards(ww)[dd].dashboard_name)>>
    \o Flatten([k \in DOMAIN Sheets(ww, dd) |-> SheetCalls(ww, dd, k)])

WorkbookCalls(ww) ==
    <<Call("reconcile", ww, 0, 0, Workbooks[ww].workbook_name)>>
    \o Flatten([j \in DOMAIN Dashboards(ww) |-> DashboardCalls(ww, j)])

DocumentOrder ==
    <<Call("reconcile", 0, 0, 0, config.project_name)>>
    \o Flatten([i \in DOMAIN Workbooks |-> WorkbookCalls(i)])

Trace ==
    [i \in DOMAIN events |->
        Call(events[i].op, events[i].w, events[i].d, events[i].s,
             events[i].name)]

\* C8: the calls of a run are, in order, a prefix of the depth-first
\* document order of the config (project, each workbook, each of its
\* dashboards, each of its sheets: extract, place, verify), and all of it
\* when the run completes; the sequence is a function of the config and of
\* the collaborators' answers.
C8_DocumentOrder ==
    LET order == DocumentOrder IN
    /\ Len(events) <= Len(order)
    /\ Trace = SubSeq(order, 1, Len(events))
    /\ status = "complete" => Len(events) = Len(order)

C8_Witness ==
    /\ status = "complete"
    /\ Len(Workbooks) = 2
    /\ Cardinality(EventsOf("verify")) = 2
    /\ Cardinality(EventsOf("reconcile")) = 5

\* C9: when one of the three collaborators failed to initialise, the run
\* stops where it is: no folder was queried or created, nothing extracted,
\* uploaded, probed or logged.
C9_InitFailureIsFatal ==
    (runs > 0 /\ ~(sf_session /\ drive_service /\ gemini_model)) =>
        /\ pc \in {"init", "idle"}
        /\ events = <<>>
        /\ drive = startDrive
        /\ gov_logs = startLogs

C9_Witness ==
    status = "stopped" /\ sf_session /\ drive_service /\ ~gemini_model

\* No two calls of get_or_create_folder in the run carry the same
\* (parent, name).
PathsReconciledOnce ==
    \A i \in EventsOf("reconcile"), j \in EventsOf("reconcile") :
        i # j => <<events[i].parent, events[i].name>>
                   # <<events[j].parent, events[j].name>>

\* No two workbooks share a name, and no two dashboards of one workbook.
SiblingNamesDistinct ==
    /\ \A i \in DOMAIN Workbooks, j \in DOMAIN Workbooks :
          i # j => Workbooks[i].workbook_name # Workbooks[j].workbook_name
    /\ \A i \in DOMAIN Workbooks :
          \A j \in DOMAIN Dashboards(i), k \in DOMAIN Dashboards(i) :
             j # k => Dashboards(i)[j].dashboard_name
                        # Dashboards(i)[k].dashboard_name

\* C10 as stated: in every run, whatever the names in the config, no
\* (parent, name) is reconciled twice.
C10_OncePerPath == PathsReconciledOnce

\* C10 amended: in a run on a config whose sibling names are distinct, no
\* (parent, name) is reconciled twice.
C10_OncePerPathDistinctSiblings == SiblingNamesDistinct => PathsReconciledOnce

C10_Witness ==
    /\ status = "complete"
    /\ SiblingNamesDistinct
    /\ Len(Workbooks) = 2
    /\ Cardinality(EventsOf("reconcile")) = 5

\* Two sheets of one dashboard of the config carry the same tag.
DuplicateSheetTag ==
    \E q \in AllSheets, r \in AllSheets :
        /\ q[1] = r[1] /\ q[2] = r[2] /\ q[3] # r[3]
        /\ Sheets(q[1], q[2])[q[3]] = Sheets(r[1], r[2])[r[3]]

\* C11: a config in which two sheets under the same dashboard share a tag
\* is rejected: no run of it ever starts, and no collaborator is initialised
\* or called.
C11_DuplicateTagRejected ==
    DuplicateSheetTag =>
        /\ runs = 0 /\ status = "none" /\ pc = "idle"
        /\ ~sf_session /\ ~drive_service /\ ~gemini_model
        /\ events = <<>> /\ drive = startDrive

\* ------------------------------------------------ the masking on its own
\* The masking loop applied to any small frame under any short mask_columns
\* list: column names are unique in a frame, a list may repeat a name or
\* name a column the frame does not have, a cell may already hold "***".
ColNames == {"NAME", "EMAIL", "SSN"}
Cells == {"a", Redacted}

Frames ==
    UNION {{[columns |-> cs, rows |-> rs] :
               rs \in SeqsUpTo([DOMAIN cs -> Cells], MaxRows)} :
           cs \in {x \in SeqsUpTo(ColNames, MaxCols) :
                      \A i \in DOMAIN x, j \in DOMAIN x :
                          i # j => x[i] # x[j]}}

MaskConfig(mc) ==
    [project_name |-> ProjectName,
     workbooks |-> <<Workbook("W", <<Dashboard("D", <<"t1">>, mc)>>)>>]

MaskInit ==
    /\ config \in {MaskConfig(mc) : mc \in SeqsUpTo(ColNames, MaxMask)}
    /\ queryHistory = {"t1"}
    /\ drive = <<Folder("P", None, FALSE), Folder("W", 1, FALSE),
                 Folder("D", 2, FALSE)>>
    /\ gov_logs = <<>>
    /\ pc = "mask" /\ status = "running" /\ runs = 1
    /\ sf_session = TRUE /\ drive_service = TRUE /\ gemini_model = TRUE
    /\ p_id = 1 /\ wb_id = 2 /\ db_id = 3
    /\ w = 1 /\ d = 1 /\ s = 1 /\ df \in Frames /\ output = <<>>
    /\ max_retries = 0 /\ attempt = 0 /\ ok = FALSE
    /\ probes = <<>> /\ sleeps = <<>>
    /\ events = <<>>
    /\ startDrive = drive
    /\ startLogs = gov_logs
    /\ past = <<>>

MaskNext == MaskSerialize

MaskSpec == MaskInit /\ [][MaskNext]_vars

\* What the spec says of the frame after masking, given the frame before.
MaskedAsClaimed(before, after, mask_columns) ==
    /\ after.columns = before.columns
    /\ Len(after.rows) = Len(before.rows)
    /\ \A r \in DOMAIN after.rows :
          /\ DOMAIN after.rows[r] = DOMAIN before.columns
          /\ \A c \in DOMAIN before.columns :
                IF before.columns[c] \in Range(mask_columns)
                THEN after.rows[r][c] = Redacted
                ELSE after.rows[r][c] = before.rows[r][c]
    /\ (Range(mask_columns) \cap Range(before.columns) = {}) => after = before

\* C12: the masking step sets every cell of every column that is both in
\* mask_columns and in the frame to "***", leaves every other cell as it
\* was, keeps the order of the columns and the number of rows, and does
\* nothing for a listed name the frame does not have.
C12_Masking ==
    [][pc = "mask" =>
          MaskedAsClaimed(df, df', Dashboards(w)[d].mask_columns)]_vars

C12_Witness ==
    /\ pc = "upload"
    /\ Len(df.columns) = 2 /\ Len(df.rows) = 2
    /\ LET mc == Dashboards(w)[d].mask_columns IN
       /\ \E c \in DOMAIN df.columns : df.columns[c] \in Range(mc)
       /\ \E c \in DOMAIN df.columns :
             df.columns[c] \notin Range(mc) /\ df.rows[2][c] = "a"
       /\ \E i \in DOMAIN mc : mc[i] \notin Range(df.columns)

\* The sheets of the config the sensor has verified in the current run.
VerifiedSheets ==
    {q \in AllSheets :
        \E i \in EventsAt("verify", q[1], q[2], q[3]) :
            events[i].msg = "VERIFIED"}

\* C13: once a run on a config with at least one sheet has ended, its
\* status is "complete" (the success report) if and only if the sensor has
\* verified every sheet of the config.
C13_SuccessIffAllVerified ==
    (Ended /\ AllSheets # {}) =>
        (status = "complete" <=> VerifiedSheets = AllSheets)

\* C14: when gemini_sensor_with_retry has returned, it returned True exactly
\* at its first positive probe (no probe follows it, and the attempts used
\* are that probe's index) and False with no positive probe at all; while
\* it is still trying, every probe so far was negative or raised, and each
\* of them used up one attempt.
C14_VerifierOutcome ==
    /\ (pc = "log" /\ ok) =>
          /\ probes # <<>>
          /\ probes[Len(probes)] = "positive"
          /\ \A i \in 1..(Len(probes) - 1) : probes[i] # "positive"
          /\ attempt = Len(probes)
    /\ (pc = "log" /\ ~ok) =>
          \A i \in DOMAIN probes : probes[i] # "positive"
    /\ pc = "sensor" =>
          /\ \A i \in DOMAIN probes : probes[i] \in {"negative", "raises"}
          /\ attempt = Len(probes) + 1

\* The attempts of the current call that raised, and of them the ones
\* numbered below max_retries.
FailedProbes == {i \in DOMAIN probes : probes[i] = "raises"}
FailedBelowMax == {i \in FailedProbes : i < max_retries}

\* C15: the sensor sleeps its backoff once after each failed attempt whose
\* number is below max_retries and at no other time: when it returns True
\* it has slept once per failed attempt before the successful one, when it
\* returns False (max_retries >= 1) it has slept max_retries - 1 times,
\* never after the last attempt, and the delays never decrease.
C15_Backoff ==
    /\ Len(sleeps) = Cardinality(FailedBelowMax)
    /\ (pc = "log" /\ ok) =>
          /\ Len(sleeps) = Len(probes) - 1
          /\ Len(sleeps) = Cardinality(FailedProbes)
    /\ (pc = "log" /\ ~ok /\ max_retries >= 1) =>
          /\ Len(sleeps) = max_retries - 1
          /\ Cardinality(FailedProbes) = max_retries
    /\ \A i \in DOMAIN sleeps, j \in DOMAIN sleeps :
          i <= j => sleeps[i] <= sleeps[j]

C15_Witness ==
    /\ pc = "log" /\ ~ok
    /\ Cardinality(FailedProbes) = DefaultMaxRetries
    /\ sleeps = <<BackoffDelay, BackoffDelay>>

\* The non-trashed folders of a name that lie directly under a parent; the
\* parent None is the Drive root.
ChildrenNamed(drv, name, parent) ==
    {k \in DOMAIN drv :
        /\ drv[k].kind = "folder" /\ drv[k].name = name
        /\ ~drv[k].trashed /\ drv[k].parent = parent}

\* C16: a call of get_or_create_folder with no parent returns a folder
\* that lies at the Drive root, and when the root held no non-trashed
\* folder of that name it reports CREATED, wherever else the name occurs.
C16_NullParentIsRoot ==
    \A i \in EventsOf("reconcile") :
        (events[i].parent = None /\ events[i].msg # "RAISED") =>
            /\ drive[events[i].id].parent = None
            /\ ChildrenNamed(startDrive, events[i].name, None) = {}
                  => events[i].msg = "CREATED"

\* The earliest-created of a set of items: ids are handed out in order.
Earliest(ids) == CHOOSE k \in ids : \A j \in ids : k <= j

\* C17: when several non-trashed folders of the name lie under the parent,
\* get_or_create_folder reports EXISTS and the one of them it returns is
\* the earliest-created, whatever order the listing comes in.
C17_EarliestCreated ==
    \A i \in EventsOf("reconcile") :
        LET same == ChildrenNamed(drive, events[i].name, events[i].parent) IN
        (events[i].msg # "RAISED" /\ Cardinality(same) >= 2) =>
            /\ events[i].msg = "EXISTS"
            /\ events[i].id \in same => events[i].id = Earliest(same)

\* The id the run's call of get_or_create_folder for a node returned.
ReconciledId(ww, dd) ==
    LET i == CHOOSE k \in DOMAIN events :
                 /\ events[k].op = "reconcile"
                 /\ events[k].w = ww /\ events[k].d = dd IN
    events[i].id

\* The parent that call was made with.
ReconciledUnder(ww, dd) ==
    LET i == CHOOSE k \in DOMAIN events :
                 /\ events[k].op = "reconcile"
                 /\ events[k].w = ww /\ events[k].d = dd IN
    events[i].parent

Uploads == {i \in DOMAIN events :
               events[i].op = "place" /\ events[i].msg = "UPLOADED"}

SameSheet(e, f) == e.w = f.w /\ e.d = f.d /\ e.s = f.s

\* The files the current run has added to the namespace.
NewFiles ==
    {k \in (Len(startDrive) + 1)..Len(drive) : drive[k].kind = "file"}

\* C18: in a run, the write of a sheet's artifact directly follows the
\* sheet's successful extraction and is the only write for that sheet; the
\* artifact is named <tag>.json and lies in the folder reconciled for the
\* sheet's own dashboard, which was reconciled under the folder of its
\* workbook, which was reconciled under the project folder; nothing else
\* is written; and the sensor probes a sheet, and returns for it, only
\* after the sheet's artifact has been written.
C18_ArtifactPlacement ==
    /\ NewFiles = {events[i].id : i \in Uploads}
    /\ \A i \in DOMAIN events :
          LET e == events[i] IN
          /\ (e.op = "extract" /\ e.msg = "FOUND" /\ i < Len(events)) =>
                events[i + 1].op = "place" /\ SameSheet(events[i + 1], e)
          /\ e.op = "place" =>
                /\ i > 1
                /\ events[i - 1].op = "extract"
                /\ events[i - 1].msg = "FOUND"
                /\ SameSheet(events[i - 1], e)
                /\ \A k \in 1..(i - 1) :
                      events[k].op = "place" => ~SameSheet(events[k], e)
          /\ (e.op = "place" /\ e.msg = "UPLOADED") =>
                /\ drive[e.id].kind = "file"
                /\ drive[e.id].name = Sheets(e.w, e.d)[e.s] \o ".json"
                /\ drive[e.id].parent = ReconciledId(e.w, e.d)
                /\ ReconciledUnder(e.w, e.d) = ReconciledId(e.w, 0)
                /\ ReconciledUnder(e.w, 0) = ReconciledId(0, 0)
          /\ e.op = "verify" =>
                /\ i > 1
                /\ events[i - 1].op = "place"
                /\ events[i - 1].msg = "UPLOADED"
                /\ SameSheet(events[i - 1], e)
    /\ pc = "sensor" =>
          /\ events # <<>>
          /\ events[Len(events)].op = "place"
          /\ events[Len(events)].msg = "UPLOADED"
          /\ SameSheet(events[Len(events)], [w |-> w, d |-> d, s |-> s])

C18_Witness ==
    /\ status = "complete"
    /\ Len(Workbooks) = 2
    /\ Cardinality(Uploads) = 2
    /\ Cardinality(NewFiles) = 2
    /\ Cardinality({drive[k].parent : k \in NewFiles}) = 2

\* ------------------------------------------------- a session of several runs
\* The page in one browser session: st.session_state (config, gov_logs)
\* and the Drive namespace outlive a run, everything else is set up again
\* by the next press of the button.  The session starts on an empty Drive.
SessionInit ==
    /\ Init
    /\ drive = <<>>

SessionNext ==
    \/ Trigger(MaxRuns)
    \/ LoadCredentialsRaises
    \/ InitCollaborators
    \/ ReconcileProject
    \/ ReconcileWorkbook
    \/ ReconcileDashboard
    \/ ExtractQuery
    \/ Scan
    \/ MaskSerialize
    \/ Upload
    \/ SensorCall(DefaultMaxRetries)
    \/ SensorAttempt
    \/ Log
    \/ Finish

SessionSpec == SessionInit /\ [][SessionNext]_vars

\* The verdicts the sensor has returned in the current run.
VerdictEvents == {i \in EventsOf("verify") : events[i].msg # "RAISED"}

\* C19: the report a run starts from holds no entry of an earlier run; the
\* entries it had at the start are still its first entries; and the run has
\* added one entry for each sheet the sensor has returned a verdict for,
\* none before the verdict and none twice.
C19_ReportPerRun ==
    /\ startLogs = <<>>
    /\ Len(startLogs) <= Len(gov_logs)
    /\ SubSeq(gov_logs, 1, Len(startLogs)) = startLogs
    /\ Len(NewLogs) = Cardinality(VerdictEvents) - (IF pc = "log" THEN 1 ELSE 0)
    /\ \A k \in DOMAIN NewLogs :
          Cardinality({i \in VerdictEvents :
                          /\ events[i].name = NewLogs[k].Task
                          /\ Cardinality({j \in VerdictEvents : j <= i}) = k})
             = 1

\* The cells of a serialised frame: (column name, value) pairs.
CellsOf(body) == UNION {Range(body[r]) : r \in DOMAIN body}

\* C20: every artifact a run has written holds "***", and so no value of
\* the result set, in each cell of a column that the mask_columns of the
\* sheet's dashboard lists.
C20_NoUnmaskedValueWritten ==
    \A i \in Uploads :
        LET e == events[i] IN
        \A cell \in CellsOf(drive[e.id].body) :
            cell[1] \in Range(Dashboards(e.w)[e.d].mask_columns)
               => cell[2] = Redacted

C20_Witness ==
    /\ status = "complete"
    /\ \E i \in Uploads :
          /\ Len(drive[events[i].id].body) = 2
          /\ <<"EMAIL", Redacted>> \in CellsOf(drive[events[i].id].body)
          /\ <<"NAME", "Jo">> \in CellsOf(drive[events[i].id].body)
          /\ "EMAIL" \in Range(Dashboards(events[i].w)[events[i].d].mask_columns)

\* The run before the current one.
Previous == past[Len(past)]

\* The current run follows a run that completed, on a config whose sibling
\* names are distinct, and no call of the current run has raised.
SecondOfTwoCleanRuns ==
    /\ runs >= 2 /\ past # <<>>
    /\ Previous.status = "complete"
    /\ SiblingNamesDistinct
    /\ \A i \in DOMAIN events : events[i].msg # "RAISED"

\* The folders the current run has added to the namespace.
NewFolders ==
    {k \in (Len(startDrive) + 1)..Len(drive) : drive[k].kind = "folder"}

\* C21: a run that follows a completed run of the same config on the same
\* namespace, with no failure and distinct sibling names, creates no
\* folder: each call of get_or_create_folder reports EXISTS and returns the
\* id the previous run got for the same node; and once it has completed it
\* has written one new <tag>.json file for every sheet it extracted.
C21_SecondRunReusesContainers ==
    SecondOfTwoCleanRuns =>
        /\ NewFolders = {}
        /\ \A i \in EventsOf("reconcile") :
              /\ events[i].msg = "EXISTS"
              /\ \E j \in DOMAIN Previous.events :
                    /\ Previous.events[j].op = "reconcile"
                    /\ Previous.events[j].w = events[i].w
                    /\ Previous.events[j].d = events[i].d
                    /\ Previous.events[j].id = events[i].id
        /\ status = "complete" =>
              /\ Cardinality(NewFiles) = Cardinality(Uploads)
              /\ \A i \in DOMAIN events :
                    (events[i].op = "extract" /\ events[i].msg = "FOUND") =>
                        /\ events[i + 1].op = "place"
                        /\ events[i + 1].id \in NewFiles
                        /\ drive[events[i + 1].id].name
                              = events[i].name \o ".json"

====
